---- MODULE Spec2Model ----
(***************************************************************************)
(* RiemannSurface (abelfunctions/riemannsurface.py): the memoised derived  *)
(* objects of a surface, the paths of its homology cycles, the numerical   *)
(* integration of a differential along a path and the period matrix.       *)
(*                                                                         *)
(* Numbers.  Points of the x-plane and sheet values are taken on an        *)
(* integer grid; one grid unit stands for 0.5e-15, so the tolerance 1e-15  *)
(* of cycle_paths is Tol grid units.  A path of n segments is sampled at   *)
(* t = T / (127 n), T an integer (127 = NumSamples - 1); x(t) is carried   *)
(* as 127 x(t), dx/dt as (dx/dt) / n, and every value of an integral as    *)
(* the integer 2 * 127 * 127 * value, so that all arithmetic is exact.     *)
(***************************************************************************)
EXTENDS Integers, Sequences, FiniteSets

VARIABLES f, X, ret, seen, inp

vars == <<f, X, ret, seen, inp>>

\* abs(data['value'] - bpt) < 1e-15, in grid units of 0.5e-15
Tol == 2
\* numpy.linspace(k/n, (k+1)/n, 128)
NumSamples == 128

\* bounds of the model: the genus of the curves of SpecPeriods and of Spec, the
\* runs of a computation that stores nothing, and the loops of the paths of
\* SpecIntegrate
MaxGenus == 2
ApiMaxGenus == 1
MaxRuns == 2
MaxPairs == 2

Abs(v) == IF v < 0 THEN -v ELSE v

(***************************************************************************)
(* Path segments and paths (abelfunctions.riemannsurface_path).            *)
(***************************************************************************)
Line(a, b) == [z0 |-> a, z1 |-> b, arc |-> FALSE]
Arc(a, b) == [z0 |-> a, z1 |-> b, arc |-> TRUE]

RECURSIVE Loops(_, _)
\* the loop round the point v taken rot times: two half turns per loop
Loops(v, rot) ==
  IF rot = 0 THEN <<>>
  ELSE <<Arc(v - 1, v + 1), Arc(v + 1, v - 1)>> \o Loops(v, rot - 1)

\* G: [nodes |-> sequence of node data]; node key k is nodes[k + 1]
path_around_branch_point(G, bpt_index, rot) ==
  IF rot = 0 THEN <<>>
  ELSE LET base == G.nodes[1].basepoint
           v == G.nodes[bpt_index + 1].value
       IN <<Line(base, v - 1)>> \o Loops(v, rot) \o <<Line(v - 1, base)>>

RECURSIVE ArcsBefore(_, _)
\* the number of half turns among the first k segments
ArcsBefore(segs, k) ==
  IF k = 0 THEN 0
  ELSE ArcsBefore(segs, k - 1) + (IF segs[k].arc THEN 1 ELSE 0)

\* the path keeps, per segment, the sheets continued to the segment's start
\* (its checkpoints): every half turn moves each sheet on by one grid unit
RiemannSurfacePath(x0, y0, path_segments) ==
  [x0 |-> x0, y0 |-> y0, segments |-> path_segments,
   num_path_segments |-> Len(path_segments),
   checkpoints |-> [k \in 1..Len(path_segments) |->
                      [j \in 1..Len(y0) |-> y0[j] + ArcsBefore(path_segments, k - 1)]]]

\* path(t, dxdt=True) at t = T / (127 n): the fibre (x, all sheets) and dx/dt
PathAt(path, T) ==
  IF path.num_path_segments = 0
  THEN [x |-> (NumSamples - 1) * path.x0, y |-> path.y0, dxdt |-> 0]
  ELSE LET k == IF T \div (NumSamples - 1) >= path.num_path_segments
                THEN path.num_path_segments - 1
                ELSE T \div (NumSamples - 1)
           s == path.segments[k + 1]
       IN [x |-> (NumSamples - 1) * s.z0 + (T - (NumSamples - 1) * k) * (s.z1 - s.z0),
           y |-> path.checkpoints[k + 1],
           dxdt |-> s.z1 - s.z0]

(***************************************************************************)
(* RiemannSurface.integrate                                                *)
(***************************************************************************)
\* sympy.lambdify((x,y), omega): omega = c0 + c1 x + c2 y, at 127 x; 127 omega
lambdify(omega, x127, y) ==
  (NumSamples - 1) * omega.c0 + omega.c1 * x127 + (NumSamples - 1) * omega.c2 * y

\* numpy.linspace(k/n, (k+1)/n, 128), in units of 1 / (127 n)
linspace(k, n) ==
  [m \in 1..NumSamples |-> (NumSamples - 1) * k + (m - 1)]

RECURSIVE TrapzSum(_, _, _, _)
\* the sum over m in lo..hi of (x[m+1] - x[m]) (y[m+1] + y[m]), by halves
TrapzSum(y, x, lo, hi) ==
  IF lo > hi THEN 0
  ELSE IF lo = hi THEN (x[lo + 1] - x[lo]) * (y[lo + 1] + y[lo])
  ELSE LET mid == (lo + hi) \div 2
       IN TrapzSum(y, x, lo, mid) + TrapzSum(y, x, mid + 1, hi)

\* scipy.integrate.trapz(y, x): sum of (x[m+1] - x[m]) (y[m+1] + y[m]) / 2; twice it
trapz(y, x) == TrapzSum(y, x, 1, Len(y) - 1)

\* the sheet the integrand follows: yi[0]
base_fibre(yi) == yi[1]

integrand(t, omega, path) ==
  LET p == PathAt(path, t)
  IN lambdify(omega, p.x, base_fibre(p.y)) * p.dxdt

\* one pass of the loop over the segments; the lists are built once (SubSeq)
segment_integral(k, n, omega, path) ==
  LET tpts == SubSeq(linspace(k, n), 1, NumSamples)
      fpts == SubSeq([m \in 1..NumSamples |-> integrand(tpts[m], omega, path)],
                     1, NumSamples)
  IN trapz(tpts, fpts)

RECURSIVE integrate_loop(_, _, _, _)
\* for k in xrange(n): val += ...   (the segments k, k+1, .., n-1)
integrate_loop(k, n, omega, path) ==
  IF k >= n THEN 0
  ELSE segment_integral(k, n, omega, path) + integrate_loop(k + 1, n, omega, path)

\* as integrate, with the accumulator not started at zero
integrate_seeded(omega, path) ==
  LET n == path.num_path_segments
  IN 1 + integrate_loop(0, n, omega, path)

integrate(omega, path) ==
  LET start == PathAt(path, 0)
      val == 0
      n == path.num_path_segments
  IN val + integrate_loop(0, n, omega, path)

(***************************************************************************)
(* The curve.  f stands for the curve by what the collaborating modules    *)
(* compute from it: its genus, the monodromy data, the homology basis and  *)
(* the basis of holomorphic differentials.                                 *)
(***************************************************************************)
\* monodromy data: (base_point, base_sheets, branch_points, monodromy_group, G)
Mono1 ==
  <<0, <<3, 7>>, <<10, 20>>, << <<1, 0>>, <<1, 0>> >>,
    [nodes |-> << [value |-> 10, root |-> 0, basepoint |-> 0, baselift |-> <<3, 7>>],
                  [value |-> 20] >>] >>

Mono2 ==
  <<-5, <<4, 9>>, <<10, 11, 21>>, << <<1, 0>>, <<0, 1>>, <<1, 0>> >>,
    [nodes |-> << [value |-> 10, root |-> 0, basepoint |-> -5, baselift |-> <<4, 9>>],
                  [value |-> 11], [value |-> 21] >>] >>

Mono3 ==
  <<2, <<5, 6>>, <<10, 25>>, << <<1, 0>>, <<1, 0>> >>,
    [nodes |-> << [value |-> 10, root |-> 0, basepoint |-> 2, baselift |-> <<5, 6>>],
                  [value |-> 25] >>] >>

MonodromyChoices == {Mono1, Mono2, Mono3}

\* c-cycles: sheet, (branch point, rotations), sheet, ...
CycleChoices ==
  << <<0, <<10, 1>>, 1>>,
     <<1, <<20, 1>>, 0, <<11, 1>>, 1>>,
     <<1, <<10, 0>>, 1>>,
     <<0, <<11, 1>>, 0>> >>

\* differentials c0 + c1 x + c2 y
DiffChoices ==
  << [c0 |-> 1, c1 |-> 0, c2 |-> 1],
     [c0 |-> 0, c1 |-> 1, c2 |-> 2],
     [c0 |-> 2, c1 |-> 1, c2 |-> 0] >>

Pick(choices, i) == choices[(i % Len(choices)) + 1]

Curve(g, m, s) ==
  [genus |-> g,
   mono |-> m,
   hom |-> << [j \in 1..g |-> Pick(CycleChoices, s + j - 1)],
              [j \in 1..g |-> Pick(CycleChoices, s + g + j - 1)] >>,
   diffs |-> [i \in 1..g |-> Pick(DiffChoices, s + i - 1)]]

Curves(maxg) ==
  {Curve(g, m, s) : g \in 0..maxg, m \in MonodromyChoices,
                    s \in 0..(Len(CycleChoices) - 1)}

(***************************************************************************)
(* The surface X: the stored results (<<>> while not computed, <<v>> once  *)
(* computed) and, for the record, how often each computation has run.      *)
(* A method is an operator from the surface to [s, status, val]: the       *)
(* surface after the call and what the call returns.                       *)
(***************************************************************************)
NewSurface ==
  [mono |-> <<>>, hom |-> <<>>, diff |-> <<>>, cp |-> <<>>,
   runs |-> [mono |-> 0, hom |-> 0, diff |-> 0, cp |-> 0, cpOk |-> 0,
             pm |-> 0, pmOk |-> 0, integ |-> 0]]

Ret(s, v) == [s |-> s, status |-> "ok", val |-> v]
Raise(s, e) == [s |-> s, status |-> "error", val |-> e]

\* abelfunctions.monodromy.monodromy(f, x, y), memoised
monodromy_fn(s) ==
  IF s.mono # <<>> THEN Ret(s, s.mono[1])
  ELSE Ret([s EXCEPT !.mono = <<f.mono>>, !.runs.mono = @ + 1], f.mono)

\* abelfunctions.homology.homology(f, x, y), memoised
homology_fn(s) ==
  IF s.hom # <<>> THEN Ret(s, s.hom[1])
  ELSE Ret([s EXCEPT !.hom = <<f.hom>>, !.runs.hom = @ + 1], f.hom)

\* abelfunctions.differentials.differentials(f, x, y), memoised
differentials_fn(s) ==
  IF s.diff # <<>> THEN Ret(s, s.diff[1])
  ELSE Ret([s EXCEPT !.diff = <<f.diffs>>, !.runs.diff = @ + 1], f.diffs)

\* abelfunctions.singularities.genus(f, x, y)
genus_fn(s) == Ret(s, f.genus)

monodromy(s) == monodromy_fn(s)

Component(r, k) == Ret(r.s, r.val[k])

monodromy_graph(s) == Component(monodromy(s), 5)
base_point(s) == Component(monodromy(s), 1)
base_sheets(s) == Component(monodromy(s), 2)
\* as base_lift, returning the branch points
base_lift_branch_points(s) == Component(monodromy(s), 3)
base_lift(s) == base_sheets(s)
branch_points(s) == Component(monodromy(s), 3)
monodromy_group(s) == Component(monodromy(s), 4)

homology(s) == homology_fn(s)
holomorphic_differentials(s) == differentials_fn(s)
differentials(s) == holomorphic_differentials(s)
genus(s) == genus_fn(s)
cycles(s) == homology(s)

(***************************************************************************)
(* RiemannSurface.cycle_paths                                              *)
(***************************************************************************)
\* cycle[1::2]: the (branch point, rotations) pairs of a cycle
Pairs(cycle) == [i \in 1..(Len(cycle) \div 2) |-> cycle[2 * i]]

\* the keys of the nodes of G within the tolerance of bpt, in the order of G.nodes()
NodesNear(G, bpt) ==
  {key \in 0..(Len(G.nodes) - 1) : Abs(G.nodes[key + 1].value - bpt) < Tol}

Least(S) == CHOOSE k \in S : \A j \in S : k <= j

\* as bpt_index, falling back to node 0 when no node is near
bpt_index_or_root(G, bpt) ==
  IF NodesNear(G, bpt) = {} THEN 0 ELSE Least(NodesNear(G, bpt))

\* [key for key,data in G.nodes(data=True) if abs(data['value']-bpt) < 1e-15][0];
\* -1 stands for the IndexError of an empty list
bpt_index(G, bpt) ==
  IF NodesNear(G, bpt) = {} THEN -1 ELSE Least(NodesNear(G, bpt))

RECURSIVE extend_segments_prepend(_, _, _, _)
\* as extend_segments, putting each loop before the segments so far
extend_segments_prepend(G, pairs, i, path_segments) ==
  IF i > Len(pairs) THEN [ok |-> TRUE, segments |-> path_segments]
  ELSE LET index == bpt_index(G, pairs[i][1])
       IN IF index < 0 THEN [ok |-> FALSE, segments |-> <<>>]
          ELSE extend_segments_prepend(G, pairs, i + 1,
                 path_around_branch_point(G, index, pairs[i][2]) \o path_segments)

RECURSIVE extend_segments(_, _, _, _)
\* the loop over cycle[1::2] from the i-th pair on, path_segments so far
extend_segments(G, pairs, i, path_segments) ==
  IF i > Len(pairs) THEN [ok |-> TRUE, segments |-> path_segments]
  ELSE LET bpt == pairs[i][1]
           rot == pairs[i][2]
           index == bpt_index(G, bpt)
       IN IF index < 0 THEN [ok |-> FALSE, segments |-> <<>>]
          ELSE extend_segments(G, pairs, i + 1,
                 path_segments \o path_around_branch_point(G, index, rot))

\* the body of the loop  for cycle in cycles
cycle_path(s, G, cycle) ==
  LET built == extend_segments(G, Pairs(cycle), 1, <<>>)
      x0 == base_point(s).val
      y0 == base_lift(s).val
  IN [ok |-> built.ok,
      gamma |-> RiemannSurfacePath(x0, y0, built.segments)]

cycle_paths_body(s) ==
  LET h == homology(s)
      a_cycles == h.val[1]
      b_cycles == h.val[2]
      cycs == a_cycles \o b_cycles
      g == monodromy_graph(h.s)
      G == g.val
      root == G.nodes[1].root
      s1 == [g.s EXCEPT !.runs.cp = @ + 1]
      built == [k \in 1..Len(cycs) |-> cycle_path(s1, G, cycs[k])]
  IN IF \E k \in 1..Len(cycs) : ~built[k].ok
     THEN Raise(s1, "IndexError")
     ELSE LET paths == [k \in 1..Len(cycs) |-> built[k].gamma]
          IN Ret([s1 EXCEPT !.cp = <<paths>>, !.runs.cpOk = @ + 1], paths)

\* as cycle_paths, without the decorator
cycle_paths_uncached(s) == cycle_paths_body(s)

\* @cached_function
cycle_paths(s) ==
  IF s.cp # <<>> THEN Ret(s, s.cp[1]) ELSE cycle_paths_body(s)

(***************************************************************************)
(* RiemannSurface.period_matrix                                            *)
(***************************************************************************)
RECURSIVE integrate_calls_transposed(_, _, _, _, _)
\* as integrate_calls, with the indices of differential and cycle exchanged
integrate_calls_transposed(omegas, cycs, g, p, made) ==
  IF p > 2 * g * g THEN made
  ELSE LET i == ((p - 1) \div (2 * g)) + 1
           j == (((p - 1) % (2 * g)) \div 2) + 1
           c == IF (p - 1) % 2 = 0 THEN i ELSE i + g
       IN integrate_calls_transposed(omegas, cycs, g, p + 1,
            Append(made, [mat |-> IF (p - 1) % 2 = 0 THEN "A" ELSE "B",
                          omega |-> j, cycle |-> c,
                          integral |-> integrate(omegas[j], cycs[c])]))

RECURSIVE integrate_calls_first_cycle(_, _, _, _, _)
\* as integrate_calls, with the inner loop stuck on its first cycle
integrate_calls_first_cycle(omegas, cycs, g, p, made) ==
  IF p > 2 * g * g THEN made
  ELSE LET i == ((p - 1) \div (2 * g)) + 1
           c == IF (p - 1) % 2 = 0 THEN 1 ELSE 1 + g
       IN integrate_calls_first_cycle(omegas, cycs, g, p + 1,
            Append(made, [mat |-> IF (p - 1) % 2 = 0 THEN "A" ELSE "B",
                          omega |-> i, cycle |-> c,
                          integral |-> integrate(omegas[i], cycs[c])]))

RECURSIVE integrate_calls(_, _, _, _, _)
\* the calls of integrate from the p-th on, in the order the loops make them
\* (for i: for j: (omega_i, cycles[j]) then (omega_i, cycles[j+g])), added to
\* the calls made so far
integrate_calls(omegas, cycs, g, p, made) ==
  IF p > 2 * g * g THEN made
  ELSE LET i == ((p - 1) \div (2 * g)) + 1
           j == (((p - 1) % (2 * g)) \div 2) + 1
           c == IF (p - 1) % 2 = 0 THEN j ELSE j + g
       IN integrate_calls(omegas, cycs, g, p + 1,
            Append(made, [mat |-> IF (p - 1) % 2 = 0 THEN "A" ELSE "B",
                          omega |-> i, cycle |-> c,
                          integral |-> integrate(omegas[i], cycs[c])]))

period_matrix(s) ==
  LET c == cycle_paths(s)
  IN IF c.status = "error"
     THEN [s |-> [c.s EXCEPT !.runs.pm = @ + 1], status |-> "error",
           val |-> c.val, calls |-> <<>>]
     ELSE LET d == holomorphic_differentials(c.s)
              g == genus(d.s).val
              calls == integrate_calls(d.val, c.val, g, 1, <<>>)
              A == [i \in 1..g |-> [j \in 1..g |->
                      calls[2 * g * (i - 1) + 2 * (j - 1) + 1].integral]]
              B == [i \in 1..g |-> [j \in 1..g |->
                      calls[2 * g * (i - 1) + 2 * (j - 1) + 2].integral]]
          IN [s |-> [d.s EXCEPT !.runs.pm = @ + 1, !.runs.pmOk = @ + 1,
                                !.runs.integ = @ + Len(calls)],
              status |-> "ok", val |-> <<A, B>>, calls |-> calls]

(***************************************************************************)
(* The calls a user makes on one surface.                                  *)
(***************************************************************************)
Accessors ==
  {"base_point", "base_sheets", "base_lift", "branch_points", "monodromy_group",
   "monodromy_graph"}

Returns(op, r) ==
  /\ \E done \in {r} :
       /\ X' = done.s
       /\ ret' = [op |-> op, status |-> done.status, val |-> done.val,
                  calls |-> <<>>]
  /\ UNCHANGED <<f, inp>>

Calls(op, r) == Returns(op, r) /\ UNCHANGED seen

\* the same call, with what it returned kept in seen
Observes(op, r) == Returns(op, r) /\ seen' = [seen EXCEPT ![op] = @ \cup {r.val}]

CallMonodromy == Calls("monodromy", monodromy(X))
CallMonodromyGraph == Calls("monodromy_graph", monodromy_graph(X))
CallBasePoint == Calls("base_point", base_point(X))
CallBaseSheets == Calls("base_sheets", base_sheets(X))
CallBaseLift == Calls("base_lift", base_lift(X))
CallBranchPoints == Calls("branch_points", branch_points(X))
CallMonodromyGroup == Calls("monodromy_group", monodromy_group(X))
CallHomology == Calls("homology", homology(X))
CallCycles == Calls("cycles", cycles(X))
CallHolomorphicDifferentials ==
  Calls("holomorphic_differentials", holomorphic_differentials(X))
CallDifferentials == Calls("differentials", differentials(X))
CallGenus == Calls("genus", genus(X))

CallCyclePaths ==
  /\ X.cp # <<>> \/ X.runs.cp < MaxRuns
  /\ Calls("cycle_paths", cycle_paths(X))

CallPeriodMatrix ==
  /\ X.runs.pm < MaxRuns
  /\ X.cp # <<>> \/ X.runs.cp < MaxRuns
  /\ \E r \in {period_matrix(X)} :
        /\ X' = r.s
        /\ ret' = [op |-> "period_matrix", status |-> r.status, val |-> r.val,
                   calls |-> r.calls]
  /\ UNCHANGED <<f, seen, inp>>

ObserveMonodromyGraph == Observes("monodromy_graph", monodromy_graph(X))
ObserveBasePoint == Observes("base_point", base_point(X))
ObserveBaseSheets == Observes("base_sheets", base_sheets(X))
ObserveBaseLift == Observes("base_lift", base_lift(X))
ObserveBranchPoints == Observes("branch_points", branch_points(X))
ObserveMonodromyGroup == Observes("monodromy_group", monodromy_group(X))

\* integrate(omega, x, y, path) on the input inp
CallIntegrate ==
  /\ ret.op # "integrate"
  /\ ret' = [op |-> "integrate", status |-> "ok",
             val |-> integrate(inp.omega, inp.path), calls |-> <<>>]
  /\ UNCHANGED <<f, X, seen, inp>>

NoReturn == [op |-> "none", status |-> "ok", val |-> <<>>, calls |-> <<>>]
NoInput == [omega |-> DiffChoices[1], loops |-> <<>>, path |-> RiemannSurfacePath(0, <<0>>, <<>>)]
NothingSeen == [a \in Accessors |-> {}]

(***************************************************************************)
(* Spec: every method of one surface, in any order.                        *)
(***************************************************************************)
Init ==
  /\ f \in Curves(ApiMaxGenus)
  /\ X = NewSurface
  /\ ret = NoReturn
  /\ seen = NothingSeen
  /\ inp = NoInput

Next ==
  \/ CallMonodromy
  \/ CallMonodromyGraph
  \/ CallBasePoint
  \/ CallBaseSheets
  \/ CallBaseLift
  \/ CallBranchPoints
  \/ CallMonodromyGroup
  \/ CallHomology
  \/ CallCycles
  \/ CallHolomorphicDifferentials
  \/ CallDifferentials
  \/ CallGenus
  \/ CallCyclePaths
  \/ CallPeriodMatrix

Spec == Init /\ [][Next]_vars

(***************************************************************************)
(* SpecPeriods: the homology, the cycle paths and the period matrix of     *)
(* curves up to genus MaxGenus.                                            *)
(***************************************************************************)
InitPeriods ==
  /\ f \in Curves(MaxGenus)
  /\ X = NewSurface
  /\ ret = NoReturn
  /\ seen = NothingSeen
  /\ inp = NoInput

NextPeriods ==
  \/ CallHomology
  \/ CallCyclePaths
  \/ CallPeriodMatrix

SpecPeriods == InitPeriods /\ [][NextPeriods]_vars

(***************************************************************************)
(* SpecMonodromy: monodromy() and its accessors, with what each returned.  *)
(***************************************************************************)
InitMonodromy ==
  /\ f \in Curves(0)
  /\ X = NewSurface
  /\ ret = NoReturn
  /\ seen = NothingSeen
  /\ inp = NoInput

NextMonodromy ==
  \/ CallMonodromy
  \/ ObserveMonodromyGraph
  \/ ObserveBasePoint
  \/ ObserveBaseSheets
  \/ ObserveBaseLift
  \/ ObserveBranchPoints
  \/ ObserveMonodromyGroup

SpecMonodromy == InitMonodromy /\ [][NextMonodromy]_vars

(***************************************************************************)
(* SpecIntegrate: integrate() of a differential over a path made of loops  *)
(* round branch points.                                                    *)
(***************************************************************************)
\* the rotation numbers of the loops of SpecIntegrate
Rotations == {0, 1}

RECURSIVE LoopSeqs(_, _)
\* the sequences of at most n (node key, rotations) pairs of the graph G
LoopSeqs(G, n) ==
  IF n = 0 THEN {<<>>}
  ELSE LET shorter == LoopSeqs(G, n - 1)
       IN shorter \cup
          {Append(q, <<key, rot>>) :
             q \in shorter, key \in 0..(Len(G.nodes) - 1), rot \in Rotations}

RECURSIVE LoopSegments(_, _)
LoopSegments(G, q) ==
  IF q = <<>> THEN <<>>
  ELSE path_around_branch_point(G, Head(q)[1], Head(q)[2]) \o LoopSegments(G, Tail(q))

\* a differential and a path from the base fibre of the monodromy data m
IntegrateInputs(m) ==
  {[omega |-> DiffChoices[d], loops |-> q,
    path |-> RiemannSurfacePath(m[1], m[2], LoopSegments(m[5], q))] :
     d \in 1..Len(DiffChoices), q \in LoopSeqs(m[5], MaxPairs)}

InitIntegrate ==
  /\ f \in Curves(0)
  /\ X = NewSurface
  /\ ret = NoReturn
  /\ seen = NothingSeen
  /\ inp \in IntegrateInputs(f.mono)

NextIntegrate == CallIntegrate

SpecIntegrate == InitIntegrate /\ [][NextIntegrate]_vars

(***************************************************************************)
(* Properties.                                                             *)
(***************************************************************************)
\* the a-cycles, the b-cycles and the graph of the curve, and the path that
\* belongs to one cycle
ACycles == f.hom[1]
BCycles == f.hom[2]
Graph == f.mono[5]
PathFor(cycle) == cycle_path(X, Graph, cycle).gamma
Returned(op) == ret.op = op /\ ret.status = "ok"

C2_RowsAreCycles ==
  Returned("period_matrix") =>
    \A i \in 1..f.genus : \A j \in 1..f.genus :
      /\ ret.val[1][i][j] = integrate(f.diffs[j], PathFor(ACycles[i]))
      /\ ret.val[2][i][j] = integrate(f.diffs[j], PathFor(BCycles[i]))

\* C9: one call of period_matrix() makes g*g calls of integrate() for A and g*g
\* for B, one per (differential, cycle) pair, none twice and none omitted; for
\* g = 0 it makes no call and returns two empty matrices.
C9_OneIntegralPerPair ==
  Returned("period_matrix") =>
    LET g == f.genus
        made == ret.calls
        Made(m, i, c) ==
          {p \in 1..Len(made) :
             made[p].mat = m /\ made[p].omega = i /\ made[p].cycle = c}
    IN /\ Len(made) = 2 * g * g
       /\ Cardinality({p \in 1..Len(made) : made[p].mat = "A"}) = g * g
       /\ Cardinality({p \in 1..Len(made) : made[p].mat = "B"}) = g * g
       /\ \A i \in 1..g : \A j \in 1..g :
            /\ Cardinality(Made("A", i, j)) = 1
            /\ Cardinality(Made("B", i, j + g)) = 1
            /\ \A p \in Made("A", i, j) : made[p].integral = ret.val[1][i][j]
            /\ \A p \in Made("B", i, j + g) : made[p].integral = ret.val[2][i][j]
       /\ g = 0 => (made = <<>> /\ ret.val = << <<>>, <<>> >>)

C9_Witness ==
  /\ Returned("period_matrix")
  /\ f.genus = 2
  /\ Len(ret.calls) = 8

C9_WitnessGenusZero ==
  /\ Returned("period_matrix")
  /\ f.genus = 0

ComponentOf ==
  [a \in Accessors |->
     CASE a = "base_point" -> 0
       [] a = "base_sheets" -> 1
       [] a = "base_lift" -> 1
       [] a = "branch_points" -> 2
       [] a = "monodromy_group" -> 3
       [] a = "monodromy_graph" -> 4]

C4_AccessorsAreComponents ==
  /\ \A a \in Accessors :
       /\ Cardinality(seen[a]) <= 1
       /\ \A v \in seen[a] : X.mono # <<>> /\ v = X.mono[1][ComponentOf[a] + 1]
  /\ \A v \in seen["base_lift"] : \A u \in seen["base_sheets"] : v = u
  /\ ret.op = "monodromy" => X.mono # <<>> /\ ret.val = X.mono[1]
  /\ X.mono # <<>> => X.mono[1] = f.mono

C4_Witness ==
  /\ \A a \in Accessors : seen[a] # {}
  /\ ret.op = "base_lift"
  /\ ret.val = f.mono[2]

\* the trapezoidal rule for the samples fpts at the points tpts (twice it)
TrapezoidalRule(tpts, fpts) == TrapzSum(fpts, tpts, 1, Len(tpts) - 1)

RECURSIVE SumOverSegments(_, _, _, _)
SumOverSegments(k, n, omega, path) ==
  IF k >= n THEN 0
  ELSE LET tpts == SubSeq(linspace(k, n), 1, NumSamples)
           fpts == SubSeq([m \in 1..NumSamples |-> integrand(tpts[m], omega, path)],
                          1, NumSamples)
       IN TrapezoidalRule(tpts, fpts) + SumOverSegments(k + 1, n, omega, path)

\* C5: integrate() on a path of n segments returns the sum over k = 0..n-1 of
\* the trapezoidal rule for F(t) = omega(x(t), y(t)[0]) dx/dt on the 128 equally
\* spaced points of [k/n, (k+1)/n]: the sum of (t_{m+1} - t_m)(F(t_m) + F(t_{m+1}))/2.
C5_TrapezoidalRuleOfIntegrand ==
  ret.op = "integrate" =>
    ret.val = SumOverSegments(0, inp.path.num_path_segments, inp.omega, inp.path)

\* C6: the sheet on which the differential is evaluated at the start of the path
\* of a cycle is the sheet whose index is the cycle's first entry.
C6_StartsOnTheCyclesSheet ==
  X.cp # <<>> =>
    LET cycs == ACycles \o BCycles
    IN \A k \in 1..Len(cycs) :
         base_fibre(PathAt(X.cp[1][k], 0).y) = f.mono[2][cycs[k][1] + 1]

RECURSIVE IsLoopsOf(_, _)
\* segs is the concatenation, pair by pair, of a loop round a node near the
\* pair's branch point
IsLoopsOf(segs, pairs) ==
  IF Len(pairs) = 0 THEN segs = <<>>
  ELSE \E index \in 0..(Len(Graph.nodes) - 1) :
         /\ Abs(Graph.nodes[index + 1].value - pairs[1][1]) < Tol
         /\ LET loop == path_around_branch_point(Graph, index, pairs[1][2])
            IN /\ Len(segs) >= Len(loop)
               /\ SubSeq(segs, 1, Len(loop)) = loop
               /\ IsLoopsOf(SubSeq(segs, Len(loop) + 1, Len(segs)),
                            SubSeq(pairs, 2, Len(pairs)))

MissingNode ==
  \E k \in 1..(2 * f.genus) :
    LET pairs == Pairs((ACycles \o BCycles)[k])
    IN \E i \in 1..Len(pairs) :
         \A key \in 0..(Len(Graph.nodes) - 1) :
           Abs(Graph.nodes[key + 1].value - pairs[i][1]) >= Tol

\* C8: if a cycle names a branch point with no node of the graph within the
\* tolerance, cycle_paths() fails and returns no path list, and period_matrix()
\* called afterwards fails as well.
C8_MissingNodeFails ==
  MissingNode =>
    /\ X.cp = <<>>
    /\ ret.op \in {"cycle_paths", "period_matrix"} => ret.status = "error"
    /\ X.runs.cpOk = 0 /\ X.runs.pmOk = 0

C8_Witness ==
  /\ MissingNode
  /\ ret.op = "period_matrix"
  /\ ret.status = "error"
  /\ X.runs.cp = 2
  /\ X.runs.pm = 1

\* C10: integrate() of any differential over a path with zero segments, as a
\* cycle winding 0 times round every branch point it names has, returns 0.
C10_NoSegmentsIntegrateToZero ==
  ret.op = "integrate" /\ inp.path.num_path_segments = 0 => ret.val = 0

C10_Witness ==
  /\ ret.op = "integrate"
  /\ inp.loops # <<>>
  /\ \A i \in 1..Len(inp.loops) : inp.loops[i][2] = 0
  /\ inp.path.num_path_segments = 0
  /\ inp.omega.c0 # 0
  /\ ret.val = 0

====
